---- MODULE Spec2Model ----
(***************************************************************************)
(* A model of sGUI_oiiotool.py: the start-up check of the two required     *)
(* executables, and the serial loop that routes every dropped file to      *)
(* iinfo (inspect), oiiotool -o (texture to raster) or oiiotool -otex      *)
(* (raster to texture), asks before overwriting, and folds the results     *)
(* into the status summary, the console text and the progress bar.         *)
(*                                                                         *)
(* Python strings are sequences of one-character strings, so that          *)
(* str.endswith and os.path.splitext are computed, not looked up.  A       *)
(* message is a sequence of tokens: a fixed text followed by the           *)
(* characters of a path; the empty string is << >>.                        *)
(***************************************************************************)
EXTENDS Integers, Sequences, FiniteSets, TLC

(***************************************************************************)
(* Bounds of the model.                                                    *)
(***************************************************************************)
\* the longest list of urls one drop event of Spec carries
MaxFiles == 2
\* the longest list of urls one drop event of SpecProgress carries
MaxTotal == 50

(***************************************************************************)
(* The paths the model drops and the paths the conversions write.          *)
(***************************************************************************)
A_PNG == <<"a", ".", "p", "n", "g">>
A_JPG == <<"a", ".", "j", "p", "g">>
A_TX == <<"a", ".", "t", "x">>
A_TIF == <<"a", ".", "t", "i", "f">>

\* what a drop event may carry
DropPaths == {A_PNG, A_JPG, A_TX}
\* every path whose existence the program tests
AllPaths == DropPaths \cup {A_TIF}

EMPTY == << >>
TX_EXT == <<".", "t", "x">>
TIF_EXT == <<".", "t", "i", "f">>

OIIOTOOL == <<"oiiotool.exe">>
IINFO == <<"iinfo.exe">>

(***************************************************************************)
(* str.endswith and os.path.splitext.                                      *)
(***************************************************************************)
EndsWith(s, suffix) ==
    /\ Len(s) >= Len(suffix)
    /\ SubSeq(s, Len(s) - Len(suffix) + 1, Len(s)) = suffix

\* str.rfind, 1-based: 0 when c does not occur in s
RFind(s, c) ==
    LET hits == {i \in 1..Len(s) : s[i] = c}
    IN  IF hits = {} THEN 0 ELSE CHOOSE i \in hits : \A j \in hits : j <= i

Max2(a, b) == IF a >= b THEN a ELSE b

\* os.path.splitext(p)[0]: the extension starts at the last dot of the last
\* component, unless that component has nothing but dots before it
SplitExtRoot(p) ==
    LET sepIndex == Max2(RFind(p, "\\"), RFind(p, "/"))
        dotIndex == RFind(p, ".")
    IN  IF /\ dotIndex > sepIndex
           /\ \E j \in (sepIndex + 1)..(dotIndex - 1) : p[j] # "."
        THEN SubSeq(p, 1, dotIndex - 1)
        ELSE p

(***************************************************************************)
(* process_tx_file: the branch taken for an existing file, and the         *)
(* destination of the two conversions.                                     *)
(***************************************************************************)
\* a slip: the branch of lines 374-380 left out
ClassifyWithoutRaster(file_path, checkbox2Checked) ==
    IF EndsWith(file_path, TX_EXT) THEN "InspectTexture" ELSE "ConvertToTexture"

Classify(file_path, checkbox2Checked) ==
    IF EndsWith(file_path, TX_EXT) /\ ~checkbox2Checked THEN "InspectTexture"
    ELSE IF EndsWith(file_path, TX_EXT) /\ checkbox2Checked
         THEN "ConvertTextureToRaster"
         ELSE "ConvertToTexture"

IsConversion(action) == action \in {"ConvertTextureToRaster", "ConvertToTexture"}

OutputFilePath(file_path, action) ==
    IF action = "ConvertTextureToRaster" THEN SplitExtRoot(file_path) \o TIF_EXT
    ELSE IF action = "ConvertToTexture" THEN SplitExtRoot(file_path) \o TX_EXT
    ELSE EMPTY

(***************************************************************************)
(* The command lines of the three helpers.                                 *)
(***************************************************************************)
ConvertToTxCommand(input_file, output_file, add_runstats) ==
    <<OIIOTOOL, input_file, <<"-otex">>, output_file>>
        \o (IF add_runstats THEN <<(<<"--runstats">>)>> ELSE << >>)

CheckTxCommand(tx_file) == <<IINFO, <<"-v">>, tx_file>>

ConvertTxToTifCommand(tx_file, output_tif) ==
    <<OIIOTOOL, tx_file, <<"-o">>, output_tif>>

CommandFor(action, file_path, output_file_path, checkbox1Checked) ==
    IF action = "InspectTexture" THEN CheckTxCommand(file_path)
    ELSE IF action = "ConvertTextureToRaster"
         THEN ConvertTxToTifCommand(file_path, output_file_path)
         ELSE ConvertToTxCommand(file_path, output_file_path, checkbox1Checked)

(***************************************************************************)
(* Messages.                                                               *)
(***************************************************************************)
FileNotFound(file_path) == <<"File not found: ">> \o file_path

CompletionLine(file_path) ==
    <<"File ">> \o file_path \o <<" has been processed.">>


(***************************************************************************)
(* int((files_processed / total_files) * 100), line 420.  Python divides   *)
(* and multiplies in IEEE-754 binary64, each operation rounded to nearest  *)
(* (ties to even), and int() truncates.  The two roundings are followed    *)
(* here in integer arithmetic:                                             *)
(*   - when total does not divide 100 * done, the exact value is at least  *)
(*     1 / total away from an integer and the roundings cannot cross it;   *)
(*   - when 100 * done / total is an integer m, the quotient done / total  *)
(*     is rounded to 53 significant bits; if it was rounded down by more   *)
(*     than half the gap between m and the double below m (after the       *)
(*     multiplication by 100), the product is a double below m and int()   *)
(*     gives m - 1.                                                        *)
(***************************************************************************)
RECURSIVE Exp2(_)
Exp2(e) == IF e = 0 THEN 1 ELSE 2 * Exp2(e - 1)

\* 2^s modulo n
RECURSIVE Pow2Mod(_, _)
Pow2Mod(s, n) == IF s = 0 THEN 1 % n ELSE (2 * Pow2Mod(s - 1, n)) % n

\* the least q with done * 2^q >= total: done / total lies in [2^-q, 2^(1-q))
RECURSIVE BinadeBelowOne(_, _, _)
BinadeBelowOne(done, total, q) ==
    IF done * Exp2(q) >= total THEN q ELSE BinadeBelowOne(done, total, q + 1)

\* the greatest p with 2^p <= m
RECURSIVE BinadeOf(_, _)
BinadeOf(m, p) == IF Exp2(p + 1) > m THEN p ELSE BinadeOf(m, p + 1)

\* the rounding error of the binary64 quotient done / total, in units of
\* 1 / (total * 2^(52 + q)): negative when the quotient was rounded down
QuotientError(done, total) ==
    LET q == BinadeBelowOne(done, total, 0)
        r == (done * Pow2Mod(52 + q, total)) % total
        r2 == (done * Pow2Mod(52 + q, 2 * total)) % (2 * total)
        evenQuotient == ((r2 - r) \div total) % 2 = 0
    IN  IF r = 0 THEN 0
        ELSE IF 2 * r < total THEN -r
        ELSE IF 2 * r > total THEN total - r
        ELSE IF evenQuotient THEN -r ELSE total - r

\* a slip: the percentage taken before files_processed is incremented
IntPercentBeforeIncrement(done, total) == (100 * (done - 1)) \div total

IntPercent(done, total) ==
    LET m == (100 * done) \div total
        q == BinadeBelowOne(done, total, 0)
        c == QuotientError(done, total)
        p == BinadeOf(m, 0)
        halfGaps == IF Exp2(p) = m THEN 4 ELSE 2
    IN  IF (100 * done) % total # 0 THEN m
        ELSE IF c >= 0 THEN m
        ELSE IF 100 * (-c) * halfGaps > total * Exp2(q + p) THEN m - 1
        ELSE m

(***************************************************************************)
(* The state.                                                              *)
(***************************************************************************)
VARIABLES
    phase,              \* boot, probe, shown, exited: the position in __main__
    haveOiiotool,       \* oiiotool.exe exists in the script directory
    haveIinfo,          \* iinfo.exe exists in the script directory
    versionProbes,      \* how many run_with_version calls were made
    console_text_edit,  \* the start-up lines, then the last appended block
    status_text_edit,   \* what update_status_bar last set
    progress_bar,       \* the value shown by the progress bar
    checkbox1,          \* "show stats"
    checkbox2,          \* "convert tx to tif"
    fs,                 \* the paths that exist
    pc,                 \* idle, loop, confirm, tool, done
    file_urls,          \* process_dropped_files: the dropped list
    files_processed,
    processed_files,
    error_messages,
    console_output,
    cur,                \* process_tx_file: file_path, branch, output_file_path
    flags0,             \* history: the checkboxes when the drop event started
    trace,              \* history: one record per file process_tx_file took up
    confirms,           \* history: the confirm_overwrite calls of this event
    invocations,        \* history: the Popen calls of this event
    outcomes,           \* history: what process_tx_file gave for each file
    summaries           \* history: update_status_bar calls of this event

vars == <<phase, haveOiiotool, haveIinfo, versionProbes, console_text_edit,
          status_text_edit, progress_bar, checkbox1, checkbox2, fs, pc,
          file_urls, files_processed, processed_files, error_messages,
          console_output, cur, flags0, trace, confirms, invocations,
          outcomes, summaries>>

startupVars == <<phase, haveOiiotool, haveIinfo, versionProbes>>
widgetVars == <<console_text_edit, status_text_edit, progress_bar>>
flagVars == <<checkbox1, checkbox2>>
loopVars == <<file_urls, files_processed, processed_files, error_messages,
              console_output>>
historyVars == <<flags0, trace, confirms, invocations, outcomes, summaries>>

(***************************************************************************)
(* Start-up: __main__ and check_required_files.                            *)
(***************************************************************************)
\* the list comprehension of lines 46-50, in the order of required_files
MissingFiles(oiiotoolExists, iinfoExists) ==
    (IF oiiotoolExists THEN << >> ELSE <<"oiiotool.exe">>)
        \o (IF iinfoExists THEN << >> ELSE <<"iinfo.exe">>)

MissingMessage(missing_files) ==
    <<"Missing required files in the script folder:">> \o missing_files

AllFoundMessage == <<"All required files found.">>

\* a slip: required_files without iinfo.exe
OiiotoolFound(oiiotoolExists, iinfoExists) == oiiotoolExists

\* the value check_required_files returns
RequiredFilesFound(oiiotoolExists, iinfoExists) ==
    MissingFiles(oiiotoolExists, iinfoExists) = << >>

NoFile == [file_path |-> EMPTY, action |-> "None", output_file_path |-> EMPTY]

NoStatus == [set |-> FALSE, processed |-> << >>, errors |-> << >>]

\* The state after DragDropWidget() was constructed (lines 489-492).  The
\* progress bar is constructed without a value and shows an empty bar, which
\* is what it shows for 0.
Init ==
    /\ phase = "boot"
    /\ haveOiiotool \in BOOLEAN
    /\ haveIinfo \in BOOLEAN
    /\ versionProbes = 0
    /\ console_text_edit = << >>
    /\ status_text_edit = NoStatus
    /\ progress_bar = 0
    /\ checkbox1 = TRUE
    /\ checkbox2 = FALSE
    /\ fs \in SUBSET AllPaths
    /\ pc = "idle"
    /\ file_urls = << >>
    /\ files_processed = 0
    /\ processed_files = << >>
    /\ error_messages = << >>
    /\ console_output = << >>
    /\ cur = NoFile
    /\ flags0 = [stats |-> TRUE, totif |-> FALSE]
    /\ trace = << >>
    /\ confirms = << >>
    /\ invocations = << >>
    /\ outcomes = << >>
    /\ summaries = 0

\* line 493: the check; on failure nothing else of __main__ runs
CheckRequiredFiles ==
    /\ phase = "boot"
    /\ IF RequiredFilesFound(haveOiiotool, haveIinfo)
       THEN /\ console_text_edit' = Append(console_text_edit, AllFoundMessage)
            /\ phase' = "probe"
       ELSE /\ console_text_edit' =
                Append(console_text_edit,
                       MissingMessage(MissingFiles(haveOiiotool, haveIinfo)))
            /\ phase' = "exited"
    /\ UNCHANGED <<haveOiiotool, haveIinfo, versionProbes, status_text_edit,
                   progress_bar, flagVars, fs, pc, loopVars, cur,
                   historyVars>>

\* lines 494-497 and run_with_version: one --version probe per executable.
\* The line it appends is the probe's output or the text of the exception;
\* neither is parsed, and the model keeps one line for both.
ProbeLine(file) == file \o <<": version text, or the error of the probe">>

RunWithVersion ==
    /\ phase = "probe"
    /\ versionProbes < 2
    /\ versionProbes' = versionProbes + 1
    /\ console_text_edit' =
           Append(console_text_edit,
                  ProbeLine(IF versionProbes = 0 THEN OIIOTOOL ELSE IINFO))
    /\ UNCHANGED <<phase, haveOiiotool, haveIinfo, status_text_edit,
                   progress_bar, flagVars, fs, pc, loopVars, cur,
                   historyVars>>

\* lines 498-499: widget.show() and the event loop
Show ==
    /\ phase = "probe"
    /\ versionProbes = 2
    /\ phase' = "shown"
    /\ UNCHANGED <<haveOiiotool, haveIinfo, versionProbes, widgetVars,
                   flagVars, fs, pc, loopVars, cur, historyVars>>

(***************************************************************************)
(* What the event loop delivers while it runs: at the top level (idle) and *)
(* inside QMessageBox.exec() (confirm).  While a tool runs the thread is   *)
(* blocked in communicate() and nothing is delivered.  Other processes     *)
(* create and remove files between drop events.                            *)
(***************************************************************************)
ToggleCheckbox1 ==
    /\ phase = "shown"
    /\ pc \in {"idle", "confirm"}
    /\ checkbox1' = ~checkbox1
    /\ UNCHANGED <<startupVars, widgetVars, checkbox2, fs, pc, loopVars,
                   cur, historyVars>>

ToggleCheckbox2 ==
    /\ phase = "shown"
    /\ pc \in {"idle", "confirm"}
    /\ checkbox2' = ~checkbox2
    /\ UNCHANGED <<startupVars, widgetVars, checkbox1, fs, pc, loopVars,
                   cur, historyVars>>

EnvFs(path) ==
    /\ phase = "shown"
    /\ pc = "idle"
    /\ fs' = IF path \in fs THEN fs \ {path} ELSE fs \cup {path}
    /\ UNCHANGED <<startupVars, widgetVars, flagVars, pc, loopVars,
                   cur, historyVars>>

(***************************************************************************)
(* A drop event: dropEvent, process_dropped_files, process_tx_file.        *)
(***************************************************************************)
RECURSIVE DistinctSeqs(_, _)
DistinctSeqs(S, n) ==
    IF n = 0 THEN {<< >>}
    ELSE LET shorter == DistinctSeqs(S, n - 1)
             used(q) == {q[i] : i \in 1..Len(q)}
         IN  shorter \cup
             UNION {{Append(q, x) : x \in S \ used(q)} : q \in shorter}

\* the url lists a drop event of Spec carries: one to MaxFiles different files
Batches == DistinctSeqs(DropPaths, MaxFiles) \ {<< >>}

\* lines 351-354 and 400-404
DropEvent(urls) ==
    /\ phase = "shown"
    /\ pc = "idle"
    /\ file_urls' = urls
    /\ files_processed' = 0
    /\ processed_files' = << >>
    /\ error_messages' = << >>
    /\ console_output' = << >>
    /\ pc' = "loop"
    /\ flags0' = [stats |-> checkbox1, totif |-> checkbox2]
    /\ trace' = << >>
    /\ confirms' = << >>
    /\ invocations' = << >>
    /\ outcomes' = << >>
    /\ summaries' = 0
    /\ UNCHANGED <<startupVars, widgetVars, flagVars, fs, cur>>

Drop == \E urls \in Batches : DropEvent(urls)

\* line 370
SourceExists(file_path, files) == file_path \in files

\* slips: the test of lines 376 and 383 left out, or always taken
DestinationNeverExists(output_file_path, files) == FALSE
DestinationAlwaysExists(output_file_path, files) == TRUE

\* lines 376 and 383
DestinationExists(output_file_path, files) == output_file_path \in files

\* a slip: only Cancel declines
OverwriteUnlessCancel(response) == response # "Cancel"

\* line 450
Overwrite(response) == response = "Yes"

\* lines 380 and 387-389: the runstats argument is read when the command is
\* built
Invocation(i, c) ==
    [file |-> i, stats |-> checkbox1,
     command |-> CommandFor(c.action, c.file_path, c.output_file_path, checkbox1)]

\* lines 411-412 and 416-417
FoldErrors(errors, err, didRaise) ==
    IF didRaise THEN Append(errors, <<"exception">>)
    ELSE IF err # EMPTY THEN Append(errors, err)
    ELSE errors

\* a slip: the destination listed for a conversion
FoldProcessedDestination(processed, c, didRaise) ==
    IF didRaise THEN processed
    ELSE Append(processed,
                IF IsConversion(c.action) THEN c.output_file_path ELSE c.file_path)

\* line 415
FoldProcessed(processed, c, didRaise) ==
    IF didRaise THEN processed ELSE Append(processed, c.file_path)

\* a slip: line 423 inside the try block
FoldConsoleInsideTry(console, out, file_path, didRaise) ==
    IF didRaise THEN console
    ELSE (IF out # EMPTY THEN Append(console, out) ELSE console)
             \o <<CompletionLine(file_path)>>

\* lines 413-414 and 423
FoldConsole(console, out, file_path, didRaise) ==
    (IF ~didRaise /\ out # EMPTY THEN Append(console, out) ELSE console)
        \o <<CompletionLine(file_path)>>

\* lines 411-423: the rest of the iteration, once process_tx_file has
\* returned out and err for the file c, or has raised
FoldOutcome(c, out, err, didRaise) ==
    /\ error_messages' = FoldErrors(error_messages, err, didRaise)
    /\ processed_files' = FoldProcessed(processed_files, c, didRaise)
    /\ console_output' = FoldConsole(console_output, out, c.file_path, didRaise)
    /\ files_processed' = files_processed + 1
    /\ progress_bar' = IntPercent(files_processed + 1, Len(file_urls))
    /\ outcomes' = Append(outcomes,
           [stdout |-> out, stderr |-> err, raised |-> didRaise,
            listed |-> SubSeq(processed_files', Len(processed_files) + 1,
                              Len(processed_files')),
            errors |-> SubSeq(error_messages', Len(error_messages) + 1,
                              Len(error_messages'))])
    /\ cur' = NoFile
    /\ pc' = "loop"
    /\ UNCHANGED file_urls

\* lines 407-410 and 369-389, up to the first point where process_tx_file
\* waits (the confirmation dialog, the external tool); a missing file is
\* done at once
ProcessTxFile ==
    /\ pc = "loop"
    /\ files_processed < Len(file_urls)
    /\ LET file_path == file_urls[files_processed + 1]
           found == SourceExists(file_path, fs)
           action == IF found THEN Classify(file_path, checkbox2) ELSE "None"
           output_file_path == OutputFilePath(file_path, action)
           ask == IsConversion(action) /\ DestinationExists(output_file_path, fs)
           c == [file_path |-> file_path, action |-> action,
                 output_file_path |-> output_file_path]
       IN  /\ trace' = Append(trace,
                  [file_path |-> file_path, found |-> file_path \in fs,
                   action |-> action, output_file_path |-> output_file_path,
                   existed |-> output_file_path \in fs,
                   stats |-> checkbox1, totif |-> checkbox2])
           /\ IF ~found
              THEN /\ FoldOutcome(c, EMPTY, FileNotFound(file_path), FALSE)
                   /\ UNCHANGED invocations
              ELSE /\ cur' = c
                   /\ pc' = IF ask THEN "confirm" ELSE "tool"
                   /\ invocations' =
                          IF ask THEN invocations
                          ELSE Append(invocations,
                                      Invocation(files_processed + 1, c))
                   /\ UNCHANGED <<loopVars, progress_bar, outcomes>>
    /\ UNCHANGED <<startupVars, console_text_edit, status_text_edit, flagVars,
                   fs, flags0, confirms, summaries>>

\* what the dialog gives: one of its three buttons, or it fails
Responses == {"Yes", "No", "Cancel", "raise"}

\* lines 429-450 and 377-380 / 384-389: the dialog returns
ConfirmOverwrite(response) ==
    /\ pc = "confirm"
    /\ confirms' = Append(confirms,
           [file |-> files_processed + 1, path |-> cur.output_file_path,
            response |-> response])
    /\ IF response = "raise"
       THEN /\ FoldOutcome(cur, EMPTY, EMPTY, TRUE)
            /\ UNCHANGED invocations
       ELSE IF Overwrite(response)
       THEN /\ pc' = "tool"
            /\ invocations' =
                   Append(invocations, Invocation(files_processed + 1, cur))
            /\ UNCHANGED <<loopVars, progress_bar, outcomes, cur>>
       ELSE /\ FoldOutcome(cur, EMPTY, EMPTY, FALSE)
            /\ UNCHANGED invocations
    /\ UNCHANGED <<startupVars, console_text_edit, status_text_edit, flagVars,
                   fs, flags0, trace, summaries>>

\* what Popen / communicate can give back (lines 101-118, 131-146, 160-175):
\* the tool's two streams, or "" and the text of the exception
ToolOutcomes ==
    { [stdout |-> EMPTY, stderr |-> EMPTY, wrote |-> TRUE],
      [stdout |-> <<"tool stdout">>, stderr |-> EMPTY, wrote |-> TRUE],
      [stdout |-> EMPTY, stderr |-> <<"tool stderr">>, wrote |-> FALSE],
      [stdout |-> EMPTY, stderr |-> <<"launch error">>, wrote |-> FALSE] }

\* convert_to_tx, check_tx_file, convert_tx_to_tif: the tool ends
RunTool(outcome) ==
    /\ pc = "tool"
    /\ fs' = IF outcome.wrote /\ IsConversion(cur.action)
             THEN fs \cup {cur.output_file_path}
             ELSE fs
    /\ FoldOutcome(cur, outcome.stdout, outcome.stderr, FALSE)
    /\ UNCHANGED <<startupVars, console_text_edit, status_text_edit, flagVars,
                   flags0, trace, confirms, invocations, summaries>>

\* lines 425-427 and update_status_bar, update_console_text; the locals of
\* process_dropped_files end with the call.  Of console_text_edit the model
\* keeps the three start-up lines and the block of this drop event.
Finish ==
    /\ pc = "loop"
    /\ files_processed = Len(file_urls)
    /\ status_text_edit' =
           [set |-> TRUE, processed |-> processed_files, errors |-> error_messages]
    /\ progress_bar' = 0
    /\ console_text_edit' =
           IF console_output # << >>
           THEN Append(SubSeq(console_text_edit, 1, 3), console_output)
           ELSE console_text_edit
    /\ summaries' = summaries + 1
    /\ pc' = "done"
    /\ files_processed' = 0
    /\ processed_files' = << >>
    /\ error_messages' = << >>
    /\ console_output' = << >>
    /\ UNCHANGED <<startupVars, flagVars, fs, file_urls, cur, flags0, trace,
                   confirms, invocations, outcomes>>

\* line 355: dropEvent returns to the event loop.  What the widgets show of
\* the finished event is read by nothing afterwards, and the model lets go of
\* it, together with the history of the event, so that the next drop event
\* starts from the widgets' blank state.
DropAccepted ==
    /\ pc = "done"
    /\ pc' = "idle"
    /\ file_urls' = << >>
    /\ status_text_edit' = NoStatus
    /\ console_text_edit' = SubSeq(console_text_edit, 1, 3)
    /\ flags0' = [stats |-> TRUE, totif |-> FALSE]
    /\ trace' = << >>
    /\ confirms' = << >>
    /\ invocations' = << >>
    /\ outcomes' = << >>
    /\ summaries' = 0
    /\ UNCHANGED <<startupVars, progress_bar, flagVars, fs, files_processed,
                   processed_files, error_messages, console_output, cur>>

Next ==
    \/ CheckRequiredFiles
    \/ RunWithVersion
    \/ Show
    \/ ToggleCheckbox1
    \/ ToggleCheckbox2
    \/ \E path \in AllPaths : EnvFs(path)
    \/ Drop
    \/ ProcessTxFile
    \/ \E response \in Responses : ConfirmOverwrite(response)
    \/ \E outcome \in ToolOutcomes : RunTool(outcome)
    \/ Finish
    \/ DropAccepted

Spec == Init /\ [][Next]_vars

(***************************************************************************)
(* The same loop on long drop events, for the progress bar: the window is  *)
(* shown, none of the dropped files exists, so that every iteration is the *)
(* file-not-found one and the run is decided by the list's length alone.   *)
(***************************************************************************)
DIGITS == <<"0", "1", "2", "3", "4", "5", "6", "7", "8", "9">>

RECURSIVE Decimal(_)
Decimal(n) ==
    IF n < 10 THEN <<DIGITS[n + 1]>>
    ELSE Decimal(n \div 10) \o <<DIGITS[(n % 10) + 1]>>

\* f1.png, f2.png, ...
NumberedPath(i) == <<"f">> \o Decimal(i) \o <<".", "p", "n", "g">>

ManyFiles(n) == [i \in 1..n |-> NumberedPath(i)]

InitProgress ==
    /\ phase = "shown"
    /\ haveOiiotool = TRUE
    /\ haveIinfo = TRUE
    /\ versionProbes = 2
    /\ console_text_edit =
           <<AllFoundMessage, ProbeLine(OIIOTOOL), ProbeLine(IINFO)>>
    /\ status_text_edit = NoStatus
    /\ progress_bar = 0
    /\ checkbox1 = TRUE
    /\ checkbox2 = FALSE
    /\ fs = {}
    /\ pc = "idle"
    /\ file_urls = << >>
    /\ files_processed = 0
    /\ processed_files = << >>
    /\ error_messages = << >>
    /\ console_output = << >>
    /\ cur = NoFile
    /\ flags0 = [stats |-> TRUE, totif |-> FALSE]
    /\ trace = << >>
    /\ confirms = << >>
    /\ invocations = << >>
    /\ outcomes = << >>
    /\ summaries = 0

DropMany == \E n \in 1..MaxTotal : DropEvent(ManyFiles(n))

NextProgress ==
    \/ DropMany
    \/ ProcessTxFile
    \/ Finish
    \/ DropAccepted

SpecProgress == InitProgress /\ [][NextProgress]_vars

(***************************************************************************)
(* Vocabulary of the properties.  They read the histories of the drop      *)
(* event and state what is expected on their own terms.                    *)
(***************************************************************************)
\* the path ends in ".tx"
TexturePath(path) ==
    /\ Len(path) >= 3
    /\ path[Len(path) - 2] = "."
    /\ path[Len(path) - 1] = "t"
    /\ path[Len(path)] = "x"

Files == 1..Len(trace)
InvocationsOf(i) == {k \in 1..Len(invocations) : invocations[k].file = i}
ConfirmsOf(i) == {k \in 1..Len(confirms) : confirms[k].file = i}
\* the dialog was opened for file i: it has returned, or it is open
Asked(i) == ConfirmsOf(i) # {} \/ (pc = "confirm" /\ files_processed + 1 = i)
Declined(i) == \E k \in ConfirmsOf(i) : confirms[k].response \in {"No", "Cancel"}
Confirmed(i) == \E k \in ConfirmsOf(i) : confirms[k].response = "Yes"
Finished(i) == i <= Len(outcomes)
HasRunstats(command) == \E j \in 1..Len(command) : command[j] = <<"--runstats">>

RECURSIVE Concat(_)
Concat(seqs) == IF seqs = << >> THEN << >> ELSE Head(seqs) \o Concat(Tail(seqs))

\* the lines of a console block that are completion lines
CompletionLines(console) ==
    SelectSeq(console, LAMBDA line : Len(line) > 0 /\ line[1] = "File ")

\* file not found, the dialog or anything else raised, the tool did not start
HardError(i) ==
    \/ ~trace[i].found
    \/ outcomes[i].raised
    \/ outcomes[i].stderr = <<"launch error">>

(***************************************************************************)
(* C1: for every existing dropped file process_tx_file selects exactly one *)
(* action: a path ending in ".tx" is inspected (iinfo -v) when "convert tx *)
(* to tif" is off and converted to .tif (oiiotool -o) when it is on,       *)
(* whatever "show stats" is; any other path is converted to texture        *)
(* (oiiotool -otex), whatever "convert tx to tif" is, with --runstats      *)
(* exactly when "show stats" is checked.                                   *)
(***************************************************************************)
C1_ExactlyOneAction ==
    \A i \in Files :
        LET r == trace[i]
        IN  r.found =>
            /\ r.action \in {"InspectTexture", "ConvertTextureToRaster",
                             "ConvertToTexture"}
            /\ r.action = "InspectTexture" <=> (TexturePath(r.file_path) /\ ~r.totif)
            /\ r.action = "ConvertTextureToRaster" <=>
                   (TexturePath(r.file_path) /\ r.totif)
            /\ r.action = "ConvertToTexture" <=> ~TexturePath(r.file_path)
            /\ \A k \in InvocationsOf(i) :
                   LET v == invocations[k]
                   IN  /\ TexturePath(r.file_path) /\ ~r.totif =>
                              v.command = <<IINFO, <<"-v">>, r.file_path>>
                       /\ TexturePath(r.file_path) /\ r.totif =>
                              v.command = <<OIIOTOOL, r.file_path, <<"-o">>,
                                            r.output_file_path>>
                       /\ ~TexturePath(r.file_path) =>
                              /\ SubSeq(v.command, 1, 4) =
                                     <<OIIOTOOL, r.file_path, <<"-otex">>,
                                       r.output_file_path>>
                              /\ HasRunstats(v.command) <=> v.stats
                              /\ ~Asked(i) => (v.stats <=> r.stats)

\* a .tx file was converted to .tif and another file to .tx with --runstats
C1_Witness ==
    /\ pc = "done"
    /\ \E i, j \in Files :
        /\ trace[i].action = "ConvertTextureToRaster" /\ InvocationsOf(i) # {}
        /\ trace[j].action = "ConvertToTexture"
        /\ \E k \in InvocationsOf(j) : HasRunstats(invocations[k].command)

(***************************************************************************)
(* C2: a dropped file whose source does not exist when it is processed     *)
(* gives the error message "File not found: <path>", is left out of the    *)
(* processed list and does not stop the batch; a batch whose sources are   *)
(* all missing ends with an empty processed list and one error per file.   *)
(***************************************************************************)
C2_MissingFileExcluded ==
    pc = "done" =>
        /\ Len(trace) = Len(file_urls)
        /\ \A i \in Files :
               ~trace[i].found =>
                   /\ outcomes[i].errors = <<FileNotFound(trace[i].file_path)>>
                   /\ outcomes[i].listed = << >>
        /\ (\A i \in Files : ~trace[i].found) =>
               /\ status_text_edit.processed = << >>
               /\ status_text_edit.errors =
                      [i \in 1..Len(file_urls) |-> FileNotFound(file_urls[i])]

C4_DeclinedIsSkipped ==
    \A i \in Files :
        Declined(i) =>
            /\ IsConversion(trace[i].action)
            /\ trace[i].existed
            /\ InvocationsOf(i) = {}
            /\ Finished(i)
            /\ outcomes[i].errors = << >>
            /\ outcomes[i].stdout = EMPTY
            /\ outcomes[i].stderr = EMPTY
            /\ ~outcomes[i].raised

\* a.tx dropped with "convert tx to tif" on, a.tif exists, the user says No
C4_Witness ==
    /\ pc = "done"
    /\ file_urls = <<A_TX>>
    /\ trace[1].action = "ConvertTextureToRaster"
    /\ trace[1].output_file_path = A_TIF
    /\ confirms = <<[file |-> 1, path |-> A_TIF, response |-> "No"]>>
    /\ invocations = << >>
    /\ status_text_edit.errors = << >>

(***************************************************************************)
(* C5: the overwrite confirmation is invoked for a file if and only if the *)
(* file exists, its action is a conversion and the destination exists when *)
(* it is checked; with the destination absent the conversion goes straight *)
(* to the tool.                                                            *)
(***************************************************************************)
C5_AskedIffDestinationExists ==
    \A i \in Files :
        LET r == trace[i]
            conversion == r.action \in {"ConvertTextureToRaster", "ConvertToTexture"}
        IN  /\ Asked(i) <=> (r.found /\ conversion /\ r.existed)
            /\ (r.found /\ conversion /\ ~r.existed) => InvocationsOf(i) # {}
            /\ \A k \in ConfirmsOf(i) : confirms[k].path = r.output_file_path

\* in one event: a conversion that asked, and a conversion, a missing file
\* or an inspection that did not
C5_Witness ==
    /\ pc = "done"
    /\ \E i, j \in Files :
        /\ Asked(i)
        /\ ~Asked(j)
        /\ trace[j].found
        /\ IsConversion(trace[j].action)
        /\ InvocationsOf(j) # {}

(***************************************************************************)
(* C6: a drop event of N files is never cut short by one file: whatever    *)
(* mix of missing sources, declined overwrites, launch failures, tool      *)
(* errors and exceptions occurs, every file gets exactly one outcome, in   *)
(* drop order, the console block has exactly N completion lines, one per   *)
(* file in drop order, and the summary is then emitted.                    *)
(***************************************************************************)
C6_EveryFileCompletes ==
    /\ pc \in {"loop", "confirm", "tool"} =>
           /\ Len(outcomes) = files_processed
           /\ files_processed <= Len(file_urls)
           /\ CompletionLines(console_output) =
                  [i \in 1..files_processed |-> CompletionLine(file_urls[i])]
           /\ summaries = 0
    /\ pc = "done" =>
           /\ Len(outcomes) = Len(file_urls)
           /\ \A i \in 1..Len(file_urls) : trace[i].file_path = file_urls[i]
           /\ Len(console_text_edit) = 4
           /\ CompletionLines(console_text_edit[4]) =
                  [i \in 1..Len(file_urls) |-> CompletionLine(file_urls[i])]
           /\ summaries = 1
           /\ status_text_edit.set

\* an event whose first file raised and whose second file is missing
C6_Witness ==
    /\ pc = "done"
    /\ Len(file_urls) = 2
    /\ outcomes[1].raised
    /\ ~trace[2].found

(***************************************************************************)
(* C7: when oiiotool.exe or iinfo.exe is missing at start-up the program   *)
(* refuses to run: one diagnostic listing the missing files, no version    *)
(* probe, the window is never shown, no drop event is processed and no     *)
(* tool is invoked; a drop event is processed only after the check         *)
(* succeeded.                                                              *)
(***************************************************************************)
C7_RefusesWithoutExecutables ==
    LET dropSeen == pc # "idle" \/ trace # << >> \/ invocations # << >>
                    \/ status_text_edit.set
        listed(name) == \E j \in 2..Len(console_text_edit[1]) :
                            console_text_edit[1][j] = name
    IN  /\ ~(haveOiiotool /\ haveIinfo) =>
               /\ phase \in {"boot", "exited"}
               /\ versionProbes = 0
               /\ ~dropSeen
        /\ phase = "exited" =>
               /\ ~(haveOiiotool /\ haveIinfo)
               /\ Len(console_text_edit) = 1
               /\ console_text_edit[1][1] =
                      "Missing required files in the script folder:"
               /\ listed("oiiotool.exe") <=> ~haveOiiotool
               /\ listed("iinfo.exe") <=> ~haveIinfo
        /\ dropSeen =>
               /\ phase = "shown"
               /\ haveOiiotool /\ haveIinfo
               /\ console_text_edit[1] = <<"All required files found.">>

\* iinfo.exe alone is missing and the program has stopped
C7_Witness ==
    /\ phase = "exited"
    /\ haveOiiotool
    /\ ~haveIinfo
    /\ console_text_edit =
           <<(<<"Missing required files in the script folder:", "iinfo.exe">>)>>

(***************************************************************************)
(* C8: within one drop event the action and the runtime-stats setting of   *)
(* every file are those of the option flags as they were when the drop     *)
(* event started, whatever the checkboxes do while the batch is in flight. *)
(***************************************************************************)
C8_FlagsOfDropTime ==
    \A i \in Files :
        trace[i].found =>
            /\ trace[i].action =
                   (IF TexturePath(trace[i].file_path)
                    THEN (IF flags0.totif THEN "ConvertTextureToRaster"
                          ELSE "InspectTexture")
                    ELSE "ConvertToTexture")
            /\ \A k \in InvocationsOf(i) :
                   trace[i].action = "ConvertToTexture" =>
                       (HasRunstats(invocations[k].command) <=> flags0.stats)

(***************************************************************************)
(* C9, as claimed: after the k-th of N files the progress shown is         *)
(* floor(100 * k / N); it is 0 whenever no batch is in flight; the summary *)
(* is emitted once, after the last file.                                   *)
(***************************************************************************)
C9_ProgressIsFloor ==
    /\ (pc = "loop" /\ files_processed >= 1) =>
           progress_bar = (100 * files_processed) \div Len(file_urls)
    /\ pc \in {"idle", "done"} => progress_bar = 0
    /\ summaries = (IF pc = "done" THEN 1 ELSE 0)

\* the two parts of the amended C9: what holds in every state, and in
\* every step
C9_ProgressState ==
    LET k == files_processed
        n == Len(file_urls)
        floor == (100 * k) \div n
    IN  /\ progress_bar \in 0..100
        /\ (pc = "loop" /\ k >= 1) =>
               /\ progress_bar \in {floor, floor - 1}
               /\ (100 * k) % n # 0 => progress_bar = floor
               /\ k = n => progress_bar = 100
        /\ pc \in {"idle", "done"} => progress_bar = 0
        /\ summaries = (IF pc = "done" THEN 1 ELSE 0)

C9_ProgressStep ==
    /\ (pc = "loop" /\ pc' = "loop") => progress_bar' >= progress_bar
    /\ pc' = "done" => (pc = "loop" /\ files_processed = Len(file_urls))
    /\ summaries' # summaries => (pc' = "done" \/ summaries' = 0)

(***************************************************************************)
(* C9, amended: after the k-th of N files the progress shown is            *)
(* int((k / N) * 100) in floating point, which is floor(100 * k / N), or   *)
(* one less for some k with 100 * k / N an integer (29 of 50 shows 57); it *)
(* never decreases during the event, stays within 0..100 and is 100 after  *)
(* the last file; after the last file the summary is emitted exactly once  *)
(* and the progress is reset to 0, so it is 0 whenever no batch is in      *)
(* flight.                                                                 *)
(***************************************************************************)
C9_ProgressAmended == []C9_ProgressState /\ [][C9_ProgressStep]_vars

\* 29 of 50 files are done and the bar shows 57, not 58
C9_Witness ==
    /\ pc = "loop"
    /\ Len(file_urls) = 50
    /\ files_processed = 29
    /\ progress_bar = 57

(***************************************************************************)
(* C10: a conversion tool is invoked with destination D only if D did not  *)
(* exist when the file's existence check ran or the user confirmed the     *)
(* overwrite for that file; when an earlier file of the batch created D,   *)
(* the later file asks and is converted only on Yes.  Each file causes at  *)
(* most one confirmation and at most one tool invocation.                  *)
(***************************************************************************)
C10_NoSilentOverwrite ==
    \A i \in Files :
        /\ Cardinality(ConfirmsOf(i)) <= 1
        /\ Cardinality(InvocationsOf(i)) <= 1
        /\ \A k \in InvocationsOf(i) :
               trace[i].action \in {"ConvertTextureToRaster", "ConvertToTexture"} =>
                   /\ invocations[k].command[4] = trace[i].output_file_path
                   /\ ~trace[i].existed \/ Confirmed(i)
        /\ \A h \in 1..(i - 1) :
               (/\ trace[h].output_file_path = trace[i].output_file_path
                /\ IsConversion(trace[i].action)
                /\ trace[i].found
                /\ trace[i].existed
                /\ Finished(i)
                /\ ~Confirmed(i)) => InvocationsOf(i) = {}

\* a.png created a.tx, a.jpg then asked, the user said No: one invocation
C10_Witness ==
    /\ pc = "done"
    /\ file_urls = <<A_PNG, A_JPG>>
    /\ ~trace[1].existed
    /\ trace[2].existed
    /\ trace[2].output_file_path = A_TX
    /\ Declined(2)
    /\ Len(invocations) = 1
    /\ Len(confirms) = 1

====
